---------------------------- MODULE Spec2Model ----------------------------
(***************************************************************************)
(* The GTD chat bot: a webhook that parses text commands and card-button   *)
(* actions, applies them to the table tasks(id, content, done, user_id)    *)
(* and answers with a text or a list of cards.                             *)
(*                                                                         *)
(* The repository holds three versions of the chat service:                *)
(*   "basic"  src/chat/chat.go             add / list / done, text replies *)
(*   "card"   src/unnamed/part_000 1-568   + card actions, card replies    *)
(*   "text"   src/unnamed/part_000 570-943 + edit / test, text replies     *)
(* The variable variant says which one is running.                         *)
(*                                                                         *)
(* A text is a sequence of one-character strings, so that trimming and the *)
(* regular expressions are computed on characters as the Go code does.     *)
(***************************************************************************)
EXTENDS Integers, Sequences, FiniteSets, TLC

VARIABLES variant, tasks, seq, req, resp, trace, hist, inflight

vars == <<variant, tasks, seq, req, resp, trace, hist, inflight>>

Variants == {"basic", "card", "text"}

(***************************************************************************)
(* Bounds of the model.                                                    *)
(***************************************************************************)
\* The number of tasks ever created (values the id sequence hands out).
MaxTasks == 2
\* The number of tokens that follow the first word of a text drawn for the
\* parser specification.
MaxRest == 4

(***************************************************************************)
(* Characters and the Go library functions the handlers call.              *)
(***************************************************************************)
\* unicode.IsSpace on the characters of the model ("VT" is \v, "NBSP" U+00A0).
UnicodeSpace == {" ", "\t", "\n", "\r", "\f", "VT", "NBSP"}
\* The class \s of Go's regexp (RE2): [\t\n\f\r ].
ReSpace == {" ", "\t", "\n", "\r", "\f"}
\* The class \d.
Digit == {"0", "1", "2", "3", "4", "5", "6", "7", "8", "9"}

DigitVal(c) ==
  CASE c = "0" -> 0 [] c = "1" -> 1 [] c = "2" -> 2 [] c = "3" -> 3
    [] c = "4" -> 4 [] c = "5" -> 5 [] c = "6" -> 6 [] c = "7" -> 7
    [] c = "8" -> 8 [] c = "9" -> 9

DigitChar(d) ==
  CASE d = 0 -> "0" [] d = 1 -> "1" [] d = 2 -> "2" [] d = 3 -> "3"
    [] d = 4 -> "4" [] d = 5 -> "5" [] d = 6 -> "6" [] d = 7 -> "7"
    [] d = 8 -> "8" [] d = 9 -> "9"

SetMax(S) == CHOOSE m \in S : \A k \in S : k <= m
SetMin(S) == CHOOSE m \in S : \A k \in S : m <= k

\* Every character of s[a..b] is in class C (true of an empty range).
AllIn(s, a, b, C) == \A i \in a..b : s[i] \in C

\* strings.TrimSpace: s without its leading and trailing Unicode white space.
TrimSpace(s) ==
  LET keep == {i \in 1..Len(s) : s[i] \notin UnicodeSpace}
  IN IF keep = {} THEN <<>> ELSE SubSeq(s, SetMin(keep), SetMax(keep))

\* The decimal digits of math.MaxInt64, the largest int of the 64-bit build.
MaxInt64Digits ==
  <<"9","2","2","3","3","7","2","0","3","6","8","5","4","7","7","5","8","0","7">>

\* The digits of the magnitude of math.MinInt64.
MinInt64Digits ==
  <<"9","2","2","3","3","7","2","0","3","6","8","5","4","7","7","5","8","0","8">>

\* The decimal digits of math.MaxUint64: the number strconv.ParseUint
\* accumulates the digits in is a uint64.
MaxUint64Digits ==
  <<"1","8","4","4","6","7","4","4","0","7","3","7","0","9","5","5","1","6","1","5">>

\* Digit sequences of equal length: a is greater than b.
RECURSIVE DigitsGreater(_, _)
DigitsGreater(a, b) ==
  IF a = <<>> THEN FALSE
  ELSE IF Head(a) /= Head(b) THEN DigitVal(Head(a)) > DigitVal(Head(b))
  ELSE DigitsGreater(Tail(a), Tail(b))

RECURSIVE StripZeros(_)
StripZeros(ds) ==
  IF Len(ds) > 1 /\ Head(ds) = "0" THEN StripZeros(Tail(ds)) ELSE ds

RECURSIVE DigitsValue(_)
DigitsValue(ds) ==
  IF ds = <<>> THEN 0
  ELSE 10 * DigitsValue(SubSeq(ds, 1, Len(ds) - 1)) + DigitVal(ds[Len(ds)])

\* The magnitude written by ds (digits, leading zeros stripped) exceeds lim.
ExceedsDigits(ds, lim) ==
  \/ Len(ds) > Len(lim)
  \/ Len(ds) = Len(lim) /\ DigitsGreater(ds, lim)

\* A value of the type int (64 bits). The integers of the checker have 32
\* bits, so a value is held as a number (n) when its magnitude has at most
\* nine digits, and otherwise by its decimal digits, the sign first (big, with
\* n = 0); a value has one representation.
Small(n) == [n |-> n, big |-> <<>>]

GoInt(neg, mag) ==
  IF Len(mag) <= 9
    THEN Small(IF neg THEN -DigitsValue(mag) ELSE DigitsValue(mag))
    ELSE [n |-> 0, big |-> (IF neg THEN <<"-">> ELSE <<>>) \o mag]

\* strconv.Atoi: an optional sign and then decimal digits only. err is ""
\* (none), "syntax" or "range"; val is 0 with a syntax error and, with a
\* range error, math.MaxInt64 or math.MinInt64 by the sign. The characters
\* are read from the left: the digits before the first character that is
\* not a digit (pre) are accumulated in a uint64, and the range error is
\* returned at the digit where that number overflows, before a later
\* character that is not a digit is seen.
Atoi(s) ==
  LET signed == s /= <<>> /\ Head(s) \in {"+", "-"}
      neg    == s /= <<>> /\ Head(s) = "-"
      ds     == IF signed THEN Tail(s) ELSE s
      bad    == {i \in 1..Len(ds) : ds[i] \notin Digit}
      pre    == IF bad = {} THEN ds ELSE SubSeq(ds, 1, SetMin(bad) - 1)
      mag    == StripZeros(ds)
      lim    == IF neg THEN MinInt64Digits ELSE MaxInt64Digits
  IN IF ExceedsDigits(StripZeros(pre), MaxUint64Digits)
       THEN [val |-> GoInt(neg, lim), err |-> "range"]
     ELSE IF ds = <<>> \/ bad /= {}
       THEN [val |-> Small(0), err |-> "syntax"]
     ELSE IF ExceedsDigits(mag, lim)
       THEN [val |-> GoInt(neg, lim), err |-> "range"]
     ELSE [val |-> GoInt(neg, mag), err |-> ""]

\* strconv.Itoa of a number that is not negative.
RECURSIVE Itoa(_)
Itoa(n) ==
  IF n < 10 THEN <<DigitChar(n)>>
  ELSE Itoa(n \div 10) \o <<DigitChar(n % 10)>>

(***************************************************************************)
(* The command patterns of HandleChat. Each operator answers as            *)
(* FindStringSubmatch does: ok, and the captured groups m.                 *)
(***************************************************************************)
NoMatch == [ok |-> FALSE, m |-> <<>>]

HasPrefix(t, w) == Len(t) >= Len(w) /\ SubSeq(t, 1, Len(w)) = w

\* `.` matches every character but the line feed.
NoNewline(t, a, b) == \A i \in a..b : t[i] /= "\n"

\* ^add\s*(.*)$ : the pattern with nothing required after the word.
addCmdLoose(t) ==
  LET n  == Len(t)
      ks == {k \in 4..(n + 1) : AllIn(t, 4, k - 1, ReSpace) /\ NoNewline(t, k, n)}
  IN IF HasPrefix(t, <<"a", "d", "d">>) /\ ks /= {}
       THEN [ok |-> TRUE, m |-> <<SubSeq(t, SetMax(ks), n)>>]
       ELSE NoMatch

\* ^add\s+(.+)$ : the greedy \s+ leaves (.+) the shortest rest it can.
addCmd(t) ==
  LET n  == Len(t)
      ks == {k \in 5..n : AllIn(t, 4, k - 1, ReSpace) /\ NoNewline(t, k, n)}
  IN IF HasPrefix(t, <<"a", "d", "d">>) /\ ks /= {}
       THEN [ok |-> TRUE, m |-> <<SubSeq(t, SetMax(ks), n)>>]
       ELSE NoMatch

\* ^list : the pattern without its end anchor.
listCmdPrefix(t) == [ok |-> HasPrefix(t, <<"l", "i", "s", "t">>), m |-> <<>>]

\* ^list$
listCmd(t) == [ok |-> t = <<"l", "i", "s", "t">>, m |-> <<>>]

\* ^done\s+(\d+)$
doneCmd(t) ==
  LET n  == Len(t)
      ks == {k \in 6..n : AllIn(t, 5, k - 1, ReSpace) /\ AllIn(t, k, n, Digit)}
  IN IF HasPrefix(t, <<"d", "o", "n", "e">>) /\ ks /= {}
       THEN [ok |-> TRUE, m |-> <<SubSeq(t, SetMax(ks), n)>>]
       ELSE NoMatch

\* ^edit\s+(\d+)\s+(.+)$ with an empty second group allowed: ^edit\s+(\d+)\s*(.*)$
editCmdLoose(t) ==
  LET n  == Len(t)
      as == {a \in 6..n : AllIn(t, 5, a - 1, ReSpace) /\ t[a] \in Digit}
      a  == SetMax(as)
      bs == {b \in (a + 1)..(n + 1) : AllIn(t, a, b - 1, Digit)}
      b  == SetMax(bs)
      cs == {c \in b..(n + 1) : AllIn(t, b, c - 1, ReSpace) /\ NoNewline(t, c, n)}
  IN IF HasPrefix(t, <<"e", "d", "i", "t">>) /\ as /= {} /\ cs /= {}
       THEN [ok |-> TRUE, m |-> <<SubSeq(t, a, b - 1), SubSeq(t, SetMax(cs), n)>>]
       ELSE NoMatch

\* ^edit\s+(\d+)\s+(.+)$
editCmd(t) ==
  LET n  == Len(t)
      as == {a \in 6..n : AllIn(t, 5, a - 1, ReSpace) /\ t[a] \in Digit}
      a  == SetMax(as)
      bs == {b \in (a + 1)..(n + 1) : AllIn(t, a, b - 1, Digit)}
      b  == SetMax(bs)
      cs == {c \in (b + 1)..n : AllIn(t, b, c - 1, ReSpace) /\ NoNewline(t, c, n)}
  IN IF HasPrefix(t, <<"e", "d", "i", "t">>) /\ as /= {} /\ cs /= {}
       THEN [ok |-> TRUE, m |-> <<SubSeq(t, a, b - 1), SubSeq(t, SetMax(cs), n)>>]
       ELSE NoMatch

\* ^test$
testCmd(t) == [ok |-> t = <<"t", "e", "s", "t">>, m |-> <<>>]

(***************************************************************************)
(* Requests and responses.                                                 *)
(*                                                                         *)
(* A request is the decoded ChatRequest and the endpoint it arrived at:    *)
(* text, the sender's email and name, and action, the empty sequence for a *)
(* nil Action or one record [method, params], params being the list of     *)
(* key/value pairs of the payload.                                         *)
(*                                                                         *)
(* A response is err (the endpoint's error return) and the reply: its kind *)
(* and the values formatted into it, or the cards.                         *)
(***************************************************************************)
NoReq == [ep |-> "none", text |-> <<>>, email |-> "", name |-> "", action |-> <<>>]

Reply(kind, id, content, items, cards) ==
  [err |-> FALSE, reply |-> kind, id |-> id, content |-> content,
   items |-> items, cards |-> cards]

TextReply(kind, id, content) == Reply(kind, id, content, <<>>, <<>>)

CardsReply(cards) == Reply("cards", Small(0), <<>>, <<>>, cards)

\* return nil, err
Failure == [err |-> TRUE, reply |-> "error", id |-> 0, content |-> <<>>,
            items |-> <<>>, cards |-> <<>>]

NoResp == TextReply("none", Small(0), <<>>)

\* What a handler returns to the model: the table after it, the response, the
\* statements it sent to the database and whether one of them failed.
Out(db, r, stmts, failed) ==
  [tasks |-> db.tasks, seq |-> db.seq, resp |-> r, stmts |-> stmts,
   failed |-> failed]

\* The handler out ran after the statements before.
After(before, out) == [out EXCEPT !.stmts = before \o out.stmts]

\* userID: the email, else the name, else "default".
ResolveUser(email, name) ==
  IF email /= "" THEN email ELSE IF name /= "" THEN name ELSE "default"

(***************************************************************************)
(* The table tasks(id SERIAL PRIMARY KEY, content, done, user_id): tasks   *)
(* maps the id of each row to the rest of it, seq is the last value the    *)
(* id sequence handed out.                                                 *)
(***************************************************************************)
\* The id of the next row, reusing the highest id when its row was deleted.
NextValReuse(db) ==
  IF DOMAIN db.tasks = {} THEN 1 ELSE SetMax(DOMAIN db.tasks) + 1

\* nextval of the id sequence.
NextVal(db) == db.seq + 1

\* WHERE id = $1 AND user_id = $2, the owner forgotten.
MatchesAnyOwner(tbl, id, userID) == id.big = <<>> /\ id.n \in DOMAIN tbl

\* WHERE id = $1 AND user_id = $2
Matches(tbl, id, userID) ==
  id.big = <<>> /\ id.n \in DOMAIN tbl /\ tbl[id.n].user_id = userID

\* INSERT INTO tasks (content, user_id) VALUES ($1, $2) RETURNING id
Insert(db, content, userID) ==
  LET id == NextVal(db)
  IN [id |-> id,
      db |-> [tasks |-> (id :> [content |-> content, done |-> FALSE,
                                user_id |-> userID]) @@ db.tasks,
              seq |-> db.seq + 1]]

RECURSIVE Ascending(_)
Ascending(S) ==
  IF S = {} THEN <<>> ELSE <<SetMin(S)>> \o Ascending(S \ {SetMin(S)})

\* SELECT id, content, done FROM tasks WHERE user_id = $1 ORDER BY id
Select(tbl, userID) ==
  LET ids == Ascending({i \in DOMAIN tbl : tbl[i].user_id = userID})
  IN [k \in 1..Len(ids) |->
        [id |-> ids[k], content |-> tbl[ids[k]].content,
         done |-> tbl[ids[k]].done]]

\* UPDATE tasks SET done = true WHERE user_id = $2, the id forgotten.
UpdateDoneAll(tbl, id, userID) ==
  [tasks |-> [i \in DOMAIN tbl |->
                IF tbl[i].user_id = userID
                  THEN [tbl[i] EXCEPT !.done = TRUE] ELSE tbl[i]],
   rows  |-> Cardinality({i \in DOMAIN tbl : tbl[i].user_id = userID})]

\* UPDATE tasks SET done = true WHERE id = $1 AND user_id = $2
UpdateDone(tbl, id, userID) ==
  IF Matches(tbl, id, userID)
    THEN [tasks |-> [tbl EXCEPT ![id.n].done = TRUE], rows |-> 1]
    ELSE [tasks |-> tbl, rows |-> 0]

\* A DELETE that reports its row and leaves it in the table.
DeleteKeep(tbl, id, userID) ==
  [tasks |-> tbl, rows |-> IF Matches(tbl, id, userID) THEN 1 ELSE 0]

\* DELETE FROM tasks WHERE id = $1 AND user_id = $2
Delete(tbl, id, userID) ==
  IF Matches(tbl, id, userID)
    THEN [tasks |-> [i \in DOMAIN tbl \ {id.n} |-> tbl[i]], rows |-> 1]
    ELSE [tasks |-> tbl, rows |-> 0]

\* UPDATE tasks SET content = $1 WHERE id = $2 AND user_id = $3
UpdateContent(tbl, newContent, id, userID) ==
  IF Matches(tbl, id, userID)
    THEN [tasks |-> [tbl EXCEPT ![id.n].content = newContent], rows |-> 1]
    ELSE [tasks |-> tbl, rows |-> 0]

\* SELECT content FROM tasks WHERE id = $1 AND user_id = $2, scanned into
\* content: no row is the error sql.ErrNoRows.
SelectContent(tbl, id, userID) ==
  IF Matches(tbl, id, userID)
    THEN [err |-> FALSE, content |-> tbl[id.n].content]
    ELSE [err |-> TRUE, content |-> <<>>]

(***************************************************************************)
(* Cards (the card version).                                               *)
(***************************************************************************)
Button(text, method, params) ==
  [text |-> text, method |-> method, params |-> params]

TaskIdParam(taskID) == [taskId |-> Itoa(taskID)]

createTaskButtons(taskID, done) ==
  (IF ~done
     THEN <<Button("Mark as Done", "markDone", TaskIdParam(taskID))>>
     ELSE <<>>)
  \o <<Button("Edit", "editTask", TaskIdParam(taskID)),
       Button("Delete", "deleteTask", TaskIdParam(taskID))>>

\* A card: the kind and the values of its header, its text paragraph, its text
\* input (none, or one) and its buttons.
Card(kind, id, done, text, input, buttons) ==
  [kind |-> kind, id |-> id, done |-> done, text |-> text, input |-> input,
   buttons |-> buttons]

\* The card addTask returns.
AddedCard(id, content) ==
  Card("added", id, FALSE, content, <<>>,
       <<Button("Mark as Done", "markDone", TaskIdParam(id)),
         Button("Delete", "deleteTask", TaskIdParam(id))>>)

\* The card listTasks builds for one row.
TaskCard(row) ==
  Card("task", row.id, row.done, row.content, <<>>,
       createTaskButtons(row.id, row.done))

\* The card showEditForm returns.
EditFormCard(taskID, content) ==
  Card("editform", taskID, FALSE, <<>>,
       <<[name |-> "content", value |-> content, method |-> "editTask",
          params |-> TaskIdParam(taskID)]>>,
       <<Button("Save", "editTask", TaskIdParam(taskID)),
         Button("Cancel", "list", <<>>)>>)

(***************************************************************************)
(* The handlers. v is the version, db the table, f the statement of the    *)
(* request the database fails (1 the next one, 0 and less: none).          *)
(***************************************************************************)
addTask(v, db, content, userID, f) ==
  IF f = 1 THEN Out(db, Failure, <<"INSERT">>, TRUE)
  ELSE LET ins == Insert(db, content, userID)
       IN Out(ins.db,
              CASE v = "basic" -> TextReply("added", Small(ins.id), <<>>)
                [] v = "text"  -> TextReply("added", Small(ins.id), content)
                [] v = "card"  -> CardsReply(<<AddedCard(ins.id, content)>>),
              <<"INSERT">>, FALSE)

listTasks(v, db, userID, f) ==
  IF f = 1 THEN Out(db, Failure, <<"SELECT">>, TRUE)
  ELSE LET rows == Select(db.tasks, userID)
       IN Out(db,
              IF Len(rows) = 0 THEN TextReply("empty", Small(0), <<>>)
              ELSE IF v = "card"
                THEN CardsReply([k \in 1..Len(rows) |-> TaskCard(rows[k])])
              ELSE Reply("list", Small(0), <<>>,
                         [k \in 1..Len(rows) |->
                            [id |-> rows[k].id, done |-> rows[k].done,
                             content |-> rows[k].content]], <<>>),
              <<"SELECT">>, FALSE)

\* markTaskDone returning the list after the UPDATE in every version.
markTaskDoneListing(v, db, taskID, userID, f) ==
  IF f = 1 THEN Out(db, Failure, <<"UPDATE">>, TRUE)
  ELSE LET u   == UpdateDone(db.tasks, taskID, userID)
           db2 == [db EXCEPT !.tasks = u.tasks]
       IN IF u.rows = 0
            THEN Out(db2, TextReply("notfound", taskID, <<>>), <<"UPDATE">>, FALSE)
          ELSE After(<<"UPDATE">>, listTasks(v, db2, userID, f - 1))

markTaskDone(v, db, taskID, userID, f) ==
  IF f = 1 THEN Out(db, Failure, <<"UPDATE">>, TRUE)
  ELSE LET u   == UpdateDone(db.tasks, taskID, userID)
           db2 == [db EXCEPT !.tasks = u.tasks]
       IN IF u.rows = 0
            THEN Out(db2, TextReply("notfound", taskID, <<>>), <<"UPDATE">>, FALSE)
          ELSE IF v = "card"
            THEN After(<<"UPDATE">>, listTasks(v, db2, userID, f - 1))
          ELSE Out(db2, TextReply("done", taskID, <<>>), <<"UPDATE">>, FALSE)

deleteTask(v, db, taskID, userID, f) ==
  IF f = 1 THEN Out(db, Failure, <<"DELETE">>, TRUE)
  ELSE LET d   == Delete(db.tasks, taskID, userID)
           db2 == [db EXCEPT !.tasks = d.tasks]
       IN IF d.rows = 0
            THEN Out(db2, TextReply("notfound", taskID, <<>>), <<"DELETE">>, FALSE)
          ELSE IF v = "card"
            THEN After(<<"DELETE">>, listTasks(v, db2, userID, f - 1))
          ELSE Out(db2, TextReply("deleted", taskID, <<>>), <<"DELETE">>, FALSE)

editTask(v, db, taskID, newContent, userID, f) ==
  IF newContent = <<>>
    THEN Out(db, TextReply("emptycontent", Small(0), <<>>), <<>>, FALSE)
  ELSE IF f = 1 THEN Out(db, Failure, <<"UPDATE">>, TRUE)
  ELSE LET u   == UpdateContent(db.tasks, newContent, taskID, userID)
           db2 == [db EXCEPT !.tasks = u.tasks]
       IN IF u.rows = 0
            THEN Out(db2, TextReply("notfound", taskID, <<>>), <<"UPDATE">>, FALSE)
          ELSE IF v = "card"
            THEN After(<<"UPDATE">>, listTasks(v, db2, userID, f - 1))
          ELSE Out(db2, TextReply("updated", taskID, newContent),
                   <<"UPDATE">>, FALSE)

\* Every error of the query, a failure of the database as much as
\* sql.ErrNoRows, is answered with the not-found text.
showEditForm(v, db, taskID, userID, f) ==
  LET q == SelectContent(db.tasks, taskID, userID)
  IN IF f = 1 \/ q.err
       THEN Out(db, TextReply("notfound", taskID, <<>>), <<"SELECT">>, f = 1)
     ELSE IF v = "card"
       THEN Out(db, CardsReply(<<EditFormCard(taskID.n, q.content)>>),
                <<"SELECT">>, FALSE)
     ELSE Out(db, TextReply("editform", taskID, q.content), <<"SELECT">>, FALSE)

(***************************************************************************)
(* Parsing and dispatch. An intent is the handler a request is dispatched  *)
(* to (call) with the id and the content passed to it; the calls "help",   *)
(* "test", "invalidid", "unknown" and "invalidaction" answer on the spot.  *)
(***************************************************************************)
Intent(call, id, content) == [call |-> call, id |-> id, content |-> content]

\* The switch of HandleChat over the trimmed text: the first case that matches.
\* Only the text version compiles editCmd and testCmd.
Classify(v, text) ==
  IF addCmd(text).ok
    THEN Intent("addTask", Small(0), TrimSpace(addCmd(text).m[1]))
  ELSE IF listCmd(text).ok THEN Intent("listTasks", Small(0), <<>>)
  ELSE IF doneCmd(text).ok
    THEN Intent("markTaskDone", Atoi(doneCmd(text).m[1]).val, <<>>)
  ELSE IF v = "text" /\ editCmd(text).ok
    THEN Intent("editTask", Atoi(editCmd(text).m[1]).val,
                TrimSpace(editCmd(text).m[2]))
  ELSE IF v = "text" /\ testCmd(text).ok THEN Intent("test", Small(0), <<>>)
  ELSE Intent("help", Small(0), <<>>)

\* params[key] of the map built from the payload's list: the last pair with
\* the key, or the empty string.
Param(ps, key) ==
  LET at == {i \in 1..Len(ps) : ps[i].key = key}
  IN IF at = {} THEN <<>> ELSE ps[SetMax(at)].value

\* strconv.Atoi(params["taskId"]) with the error dropped.
ParseTaskIdUnchecked(ps) == [Atoi(Param(ps, "taskId")) EXCEPT !.err = ""]

\* strconv.Atoi(params["taskId"])
ParseTaskId(ps) == Atoi(Param(ps, "taskId"))

\* The editTask case with its test reversed.
EditOrFormSwapped(ps, taskID) ==
  IF Param(ps, "content") = <<>>
    THEN Intent("editTask", taskID, Param(ps, "content"))
    ELSE Intent("showEditForm", taskID, <<>>)

\* The editTask case: content given, update the task; else show the form.
EditOrForm(ps, taskID) ==
  IF Param(ps, "content") /= <<>>
    THEN Intent("editTask", taskID, Param(ps, "content"))
    ELSE Intent("showEditForm", taskID, <<>>)

\* The switch of handleCardAction over the action's method name.
Dispatch(method, ps) ==
  IF method \in {"markDone", "deleteTask", "editTask"}
    THEN IF ParseTaskId(ps).err /= "" THEN Intent("invalidid", Small(0), <<>>)
         ELSE IF method = "markDone"
           THEN Intent("markTaskDone", ParseTaskId(ps).val, <<>>)
         ELSE IF method = "deleteTask"
           THEN Intent("deleteTask", ParseTaskId(ps).val, <<>>)
         ELSE EditOrForm(ps, ParseTaskId(ps).val)
  ELSE IF method = "list" THEN Intent("listTasks", Small(0), <<>>)
  ELSE Intent("unknown", Small(0), <<>>)

\* The call an intent stands for.
Run(v, db, in, userID, f) ==
  CASE in.call = "addTask"      -> addTask(v, db, in.content, userID, f)
    [] in.call = "listTasks"    -> listTasks(v, db, userID, f)
    [] in.call = "markTaskDone" -> markTaskDone(v, db, in.id, userID, f)
    [] in.call = "deleteTask"   -> deleteTask(v, db, in.id, userID, f)
    [] in.call = "editTask"     -> editTask(v, db, in.id, in.content, userID, f)
    [] in.call = "showEditForm" -> showEditForm(v, db, in.id, userID, f)
    [] in.call = "test"         -> Out(db, TextReply("test", Small(0), <<>>), <<>>, FALSE)
    [] in.call = "help"         -> Out(db, TextReply("usage", Small(0), <<>>), <<>>, FALSE)
    [] in.call = "invalidid"    -> Out(db, TextReply("invalidid", Small(0), <<>>), <<>>, FALSE)
    [] in.call = "unknown"      -> Out(db, TextReply("unknownaction", Small(0), <<>>), <<>>, FALSE)
    [] in.call = "invalidaction" -> Out(db, TextReply("invalidaction", Small(0), <<>>), <<>>, FALSE)

\* The intent of a card action; a nil Action is answered "Invalid action".
CardIntent(r) ==
  IF r.action = <<>> THEN Intent("invalidaction", Small(0), <<>>)
  ELSE Dispatch(r.action[1].method, r.action[1].params)

\* The intent of a request to /chat. The basic version's ChatRequest has no
\* Action field: the payload's action is dropped by the decoder.
ChatIntent(v, r) ==
  IF v /= "basic" /\ r.action /= <<>> THEN CardIntent(r)
  ELSE Classify(v, TrimSpace(r.text))

\* The intent of request r: HandleChat serves /chat, HandleCardAction
\* /card-action.
IntentOf(v, r) == IF r.ep = "/chat" THEN ChatIntent(v, r) ELSE CardIntent(r)

handleCardAction(v, db, r, f) ==
  Run(v, db, CardIntent(r), ResolveUser(r.email, r.name), f)

HandleCardAction(v, db, r, f) == handleCardAction(v, db, r, f)

HandleChat(v, db, r, f) ==
  IF v /= "basic" /\ r.action /= <<>> THEN handleCardAction(v, db, r, f)
  ELSE Run(v, db, Classify(v, TrimSpace(r.text)),
           ResolveUser(r.email, r.name), f)

\* The endpoint a request is routed to.
Serve(v, db, r, f) ==
  IF r.ep = "/chat" THEN HandleChat(v, db, r, f)
  ELSE HandleCardAction(v, db, r, f)

(***************************************************************************)
(* The requests the model draws.                                           *)
(***************************************************************************)
Sp == <<" ">>
X == <<"x">>
Y == <<"y">>
One == <<"1">>
Two == <<"2">>
AddW == <<"a", "d", "d">>
ListW == <<"l", "i", "s", "t">>
DoneW == <<"d", "o", "n", "e">>
EditW == <<"e", "d", "i", "t">>
TestW == <<"t", "e", "s", "t">>
DeleteW == <<"d", "e", "l", "e", "t", "e">>

\* "add x", " add  x ", "add", "list", "done 1", "done 2", "edit 1 y",
\* "edit 2 y", "edit 1 ", "test", "delete 1", "".
Texts ==
  {AddW \o Sp \o X, Sp \o AddW \o Sp \o Sp \o X \o Sp, AddW, ListW,
   DoneW \o Sp \o One, DoneW \o Sp \o Two,
   EditW \o Sp \o One \o Sp \o Y, EditW \o Sp \o Two \o Sp \o Y,
   EditW \o Sp \o One \o Sp, TestW, DeleteW \o Sp \o One, <<>>}

\* Email and name of the senders: the owners "ann@x" and "bob".
Senders ==
  {[email |-> "ann@x", name |-> "bob"], [email |-> "", name |-> "bob"]}

KV(key, value) == [key |-> key, value |-> value]

\* Parameter lists: none, a taskId that parses (1, 2, math.MinInt64) or not
\* (x), with a content (y or empty) or without, a content alone, a taskId
\* given twice.
ParamLists ==
  {<<>>, <<KV("taskId", One)>>, <<KV("taskId", Two)>>, <<KV("taskId", X)>>,
   <<KV("taskId", One), KV("content", Y)>>,
   <<KV("taskId", One), KV("content", <<>>)>>,
   <<KV("content", Y)>>,
   <<KV("taskId", X), KV("taskId", Two)>>,
   <<KV("taskId", <<"-">> \o MinInt64Digits)>>}

Methods == {"markDone", "deleteTask", "editTask", "list", "archive"}

Action(method, ps) == <<[method |-> method, params |-> ps]>>

Actions == {Action(m, ps) : m \in Methods, ps \in ParamLists}

\* The button clicks sent to /chat: each method on task 1.
ChatActions == {Action(m, <<KV("taskId", One)>>) : m \in Methods}

Request(ep, text, sender, action) ==
  [ep |-> ep, text |-> text, email |-> sender.email, name |-> sender.name,
   action |-> action]

\* Text messages to /chat, button clicks to /chat (the message text is then
\* "list") and to /card-action, and a /card-action payload without action.
Requests ==
  {Request("/chat", t, s, <<>>) : t \in Texts, s \in Senders}
  \cup {Request("/chat", ListW, s, a) : s \in Senders, a \in ChatActions}
  \cup {Request("/card-action", <<>>, s, a) : s \in Senders, a \in Actions \cup {<<>>}}

\* Whether the database fails the statement a step sends: 0 no, 1 yes.
FailAt == 0..1

(***************************************************************************)
(* The state. req and resp are the request being answered and its          *)
(* response (NoReq, NoResp between requests); trace is what the handler    *)
(* did for it: the owner it resolved, the intent, the statements sent and  *)
(* whether one failed. hist remembers, for every id a row was created      *)
(* with, the owner and content it was created with, whether its owner has  *)
(* since had done, edit or delete executed on it (touched), whether the    *)
(* owner deleted it, and the actions of the buttons emitted for it         *)
(* (offered). inflight holds the requests whose handler is between its two *)
(* statements, each with its trace so far, in the order of their first     *)
(* statements.                                                             *)
(***************************************************************************)
NoTrace == [userID |-> "", call |-> "none", id |-> Small(0), content |-> <<>>,
            stmts |-> <<>>, failed |-> FALSE]

\* The first statement of the request was executed.
Executed(tr) == tr.stmts /= <<>> /\ ~(tr.failed /\ Len(tr.stmts) = 1)

Observe(h, before, after, tr) ==
  LET created == DOMAIN after \ DOMAIN before
      hit(i)  == /\ tr.call \in {"markTaskDone", "editTask", "deleteTask"}
                 /\ Executed(tr)
                 /\ tr.id = Small(i) /\ h[i].owner = tr.userID
  IN [i \in DOMAIN h \cup created |->
        IF i \in created
          THEN [owner |-> after[i].user_id, text |-> after[i].content,
                touched |-> FALSE, deleted |-> FALSE, offered |-> {}]
        ELSE IF hit(i)
          THEN [h[i] EXCEPT !.touched = TRUE,
                            !.deleted = @ \/ tr.call = "deleteTask"]
        ELSE h[i]]

\* The history with the buttons of response rs added: offered is, for each
\* id, the action names of the buttons emitted so far that carry it as
\* taskId.
Offer(h, rs) ==
  [i \in DOMAIN h |->
     [h[i] EXCEPT !.offered =
        @ \cup UNION {{rs.cards[k].buttons[j].method :
                         j \in {n \in 1..Len(rs.cards[k].buttons) :
                                  /\ "taskId" \in DOMAIN rs.cards[k].buttons[n].params
                                  /\ rs.cards[k].buttons[n].params.taskId = Itoa(i)}} :
                      k \in 1..Len(rs.cards)}]]

Init ==
  /\ variant \in Variants
  /\ tasks = <<>>
  /\ seq = 0
  /\ req = NoReq
  /\ resp = NoResp
  /\ trace = NoTrace
  /\ hist = <<>>
  /\ inflight = <<>>

\* The requests that are between their two statements at a time.
MaxPending == 2

\* The requests that arrive while another request is between its two
\* statements: "add x" and the clicks markDone, deleteTask and editTask (with
\* the content y) on task 1, of each sender.
Overlapping ==
  {Request("/chat", AddW \o Sp \o X, s, <<>>) : s \in Senders}
  \cup {Request("/card-action", <<>>, s, Action(m, <<KV("taskId", One)>>)) :
          s \in Senders, m \in {"markDone", "deleteTask"}}
  \cup {Request("/card-action", <<>>, s,
                Action("editTask", <<KV("taskId", One), KV("content", Y)>>)) :
          s \in Senders}

\* inflight without its k-th request.
Without(fl, k) == SubSeq(fl, 1, k - 1) \o SubSeq(fl, k + 1, Len(fl))

\* Request r is handled up to the end of its first statement, which the
\* database fails when f = 1. A handler that sends no second statement has
\* its response then. The handlers of the card version that end in `return
\* listTasks(ctx, userID)` have sent their UPDATE or DELETE and not yet the
\* SELECT: the request waits in inflight, its goroutine between the two
\* calls, and the statements of other requests run before the SELECT.
Answer(r, f) ==
  \E out \in {Serve(variant, [tasks |-> tasks, seq |-> seq], r, f)},
     in  \in {IntentOf(variant, r)} :
    \E more \in {Len(out.stmts) = 2} :
      \E tr \in {[userID |-> ResolveUser(r.email, r.name), call |-> in.call,
                  id |-> in.id, content |-> in.content,
                  stmts |-> IF more THEN <<out.stmts[1]>> ELSE out.stmts,
                  failed |-> IF more THEN FALSE ELSE out.failed]} :
        /\ out.seq <= MaxTasks
        /\ tasks' = out.tasks
        /\ seq' = out.seq
        /\ IF more
             THEN /\ Len(inflight) < MaxPending
                  /\ inflight' = Append(inflight, [req |-> r, trace |-> tr])
                  /\ req' = NoReq
                  /\ hist' = Observe(hist, tasks, out.tasks, tr)
                  /\ UNCHANGED <<resp, trace>>
             ELSE /\ req' = r
                  /\ resp' = out.resp
                  /\ trace' = tr
                  /\ hist' = Offer(Observe(hist, tasks, out.tasks, tr), out.resp)
                  /\ UNCHANGED inflight
        /\ UNCHANGED variant

\* A request arrives and is handled up to the end of its first statement.
\* The basic version has no /card-action endpoint.
HandleRequest(r, f) ==
  /\ req = NoReq
  /\ r.ep = "/card-action" => variant /= "basic"
  /\ inflight /= <<>> => r \in Overlapping
  /\ Answer(r, f)

\* The k-th request in flight sends its second statement, the SELECT of
\* listTasks, on the table as it is by then; the database fails it when
\* f = 1. The request has its response.
ListTasks(k, f) ==
  \E e \in {inflight[k]} :
    \E out \in {listTasks(variant, [tasks |-> tasks, seq |-> seq],
                          e.trace.userID, f)} :
      /\ req = NoReq
      /\ req' = e.req
      /\ resp' = out.resp
      /\ trace' = [e.trace EXCEPT !.stmts = @ \o out.stmts,
                                  !.failed = out.failed]
      /\ hist' = Offer(hist, out.resp)
      /\ inflight' = Without(inflight, k)
      /\ UNCHANGED <<variant, tasks, seq>>

\* The response of the handler is returned to the caller.
Respond ==
  /\ req /= NoReq
  /\ resp /= NoResp
  /\ req' = NoReq
  /\ resp' = NoResp
  /\ trace' = NoTrace
  /\ UNCHANGED <<variant, tasks, seq, hist, inflight>>

Next ==
  \/ \E r \in Requests, f \in FailAt : HandleRequest(r, f)
  \/ \E k \in 1..Len(inflight), f \in FailAt : ListTasks(k, f)
  \/ Respond

Spec == Init /\ [][Next]_vars

(***************************************************************************)
(* The parser on its own: one text message, drawn from every text made of  *)
(* an optional leading space, a first word (a command word or nothing) and *)
(* up to MaxRest tokens, is handled on a table that holds one task of the  *)
(* sender. When its handler sends two statements, other requests are       *)
(* served between them.                                                    *)
(***************************************************************************)
FirstWords == {<<>>, AddW, ListW, DoneW, EditW, TestW}

RestTokens == {Sp, One, Two, X, <<"\n">>}

RECURSIVE Flatten(_)
Flatten(ts) == IF ts = <<>> THEN <<>> ELSE Head(ts) \o Flatten(Tail(ts))

\* The digits of math.MaxInt64 + 1: the shortest digit sequence that is out
\* of the range of int.
TooBig == SubSeq(MaxInt64Digits, 1, Len(MaxInt64Digits) - 1) \o <<"8">>

\* "done 9223372036854775808" and "edit 9223372036854775808 x".
LongTexts == {DoneW \o Sp \o TooBig, EditW \o Sp \o TooBig \o Sp \o X}

ParseTexts ==
  {lead \o w \o Flatten(rest) :
     lead \in {<<>>, Sp}, w \in FirstWords,
     rest \in UNION {[1..n -> RestTokens] : n \in 0..MaxRest}}
  \cup LongTexts

\* The sender without email and name: the owner "default".
Anonymous == [email |-> "", name |-> ""]

InitParse ==
  /\ variant \in Variants
  /\ tasks = (1 :> [content |-> X, done |-> FALSE, user_id |-> "default"])
  /\ seq = 1
  /\ req \in {Request("/chat", t, Anonymous, <<>>) : t \in ParseTexts}
  /\ resp = NoResp
  /\ trace = NoTrace
  /\ hist = (1 :> [owner |-> "default", text |-> X, touched |-> FALSE,
                   deleted |-> FALSE, offered |-> {}])
  /\ inflight = <<>>

\* The pending message is handled up to the end of its first statement.
ParseStep ==
  /\ req /= NoReq
  /\ resp = NoResp
  /\ \E f \in FailAt : Answer(req, f)

\* Another request arrives while a request is between its two statements.
ParseOther ==
  /\ inflight /= <<>>
  /\ \E r \in Overlapping, f \in FailAt : HandleRequest(r, f)

NextParse ==
  \/ ParseStep
  \/ ParseOther
  \/ \E k \in 1..Len(inflight), f \in FailAt : ListTasks(k, f)
  \/ Respond

SpecParse == InitParse /\ [][NextParse]_vars

(***************************************************************************)
(* Concurrent requests. The endpoints run one goroutine per request and    *)
(* share the database only: each statement is atomic, and between the two  *)
(* statements of a request the statements of other requests may run.       *)
(* inflight[p] is the request goroutine p is serving: the statements it    *)
(* has sent, the rows of its owner as its first statement left them        *)
(* (snap), whether a statement of another request ran after its first      *)
(* statement and before its last (crossed), and the kind of its response.  *)
(***************************************************************************)
\* The goroutines serving requests at once.
MaxProcs == 2

\* The tasks created in a run of concurrent requests.
MaxConcTasks == 1

Procs == 1..MaxProcs

Idle == [pc |-> "idle", req |-> NoReq, stmts |-> <<>>, snap |-> <<>>,
         crossed |-> FALSE, reply |-> NoResp.reply]

\* The requests served concurrently, all of one sender: "add x", "list",
\* and the clicks markDone, deleteTask, editTask (with and without a
\* content) on task 1.
ConcSender == [email |-> "ann@x", name |-> "bob"]

ConcRequests ==
  {Request("/chat", t, ConcSender, <<>>) :
     t \in {AddW \o Sp \o X, ListW}}
  \cup {Request("/card-action", <<>>, ConcSender, Action(m, ps)) :
          m \in {"markDone", "deleteTask", "editTask"},
          ps \in {<<KV("taskId", One)>>}}
  \cup {Request("/card-action", <<>>, ConcSender,
                Action("editTask", <<KV("taskId", One), KV("content", Y)>>))}

InitConc ==
  /\ variant \in Variants
  /\ tasks = <<>>
  /\ seq = 0
  /\ req = NoReq
  /\ resp = NoResp
  /\ trace = NoTrace
  /\ hist = <<>>
  /\ inflight = [p \in Procs |-> Idle]

\* The goroutines between their first and their last statement, but p, see
\* a statement of p run.
Cross(fl, p, ran) ==
  [q \in Procs |->
     IF q /= p /\ fl[q].pc = "second" /\ ran
       THEN [fl[q] EXCEPT !.crossed = TRUE]
       ELSE fl[q]]

\* Goroutine p takes request r up to the end of its first statement, which
\* the database fails when f = 1. A handler that sends no second statement
\* has its response then.
Begin(p, r, f) ==
  LET out  == Serve(variant, [tasks |-> tasks, seq |-> seq], r, f)
      more == Len(out.stmts) = 2
  IN /\ inflight[p].pc = "idle"
     /\ r.ep = "/card-action" => variant /= "basic"
     /\ out.seq <= MaxConcTasks
     /\ tasks' = out.tasks
     /\ seq' = out.seq
     /\ inflight' =
          [Cross(inflight, p, out.stmts /= <<>>) EXCEPT
             ![p] = [pc      |-> IF more THEN "second" ELSE "done",
                     req     |-> r,
                     stmts   |-> IF more THEN <<out.stmts[1]>> ELSE out.stmts,
                     snap    |-> IF more
                                   THEN Select(out.tasks, ResolveUser(r.email, r.name))
                                   ELSE <<>>,
                     crossed |-> FALSE,
                     reply   |-> IF more THEN NoResp.reply ELSE out.resp.reply]]
     /\ UNCHANGED <<variant, req, resp, trace, hist>>

\* Goroutine p sends its second statement, the SELECT of listTasks, which
\* the database fails when f = 1, and has its response.
Second(p, f) ==
  LET out == listTasks(variant, [tasks |-> tasks, seq |-> seq],
                       ResolveUser(inflight[p].req.email,
                                   inflight[p].req.name), f)
  IN /\ inflight[p].pc = "second"
     /\ inflight' =
          [Cross(inflight, p, TRUE) EXCEPT
             ![p] = [inflight[p] EXCEPT !.pc = "done",
                                        !.stmts = @ \o out.stmts,
                                        !.reply = out.resp.reply]]
     /\ UNCHANGED <<variant, tasks, seq, req, resp, trace, hist>>

\* Goroutine p returns its response.
Finish(p) ==
  /\ inflight[p].pc = "done"
  /\ inflight' = [inflight EXCEPT ![p] = Idle]
  /\ UNCHANGED <<variant, tasks, seq, req, resp, trace, hist>>

NextConc ==
  \/ \E p \in Procs, r \in ConcRequests, f \in 0..1 : Begin(p, r, f)
  \/ \E p \in Procs, f \in 0..1 : Second(p, f)
  \/ \E p \in Procs : Finish(p)

SpecConc == InitConc /\ [][NextConc]_vars

(***************************************************************************)
(* Properties.                                                             *)
(***************************************************************************)
\* This step answers the request req'.
Answered == resp = NoResp /\ resp' /= NoResp

\* This step takes a request up to the end of its first statement and
\* leaves it in flight, its second statement to come.
Parked == Len(inflight') > Len(inflight)

\* This step handles a request up to the end of its first statement: the
\* request is answered or left in flight.
Handled == Parked \/ (Answered /\ Len(inflight') = Len(inflight))

\* The request a Handled step handles, and its trace.
HandledReq == IF Parked THEN inflight'[Len(inflight')].req ELSE req'

HandledTrace == IF Parked THEN inflight'[Len(inflight')].trace ELSE trace'

\* A request has been answered and its response not yet sent.
Replied == resp /= NoResp

\* The owner request r is resolved to.
OwnerOf(r) == ResolveUser(r.email, r.name)

\* r is a text message: it reaches the command switch of HandleChat.
IsTextMessage(v, r) == r.ep = "/chat" /\ (v = "basic" \/ r.action = <<>>)

\* r is a button click handled by handleCardAction.
IsCardAction(v, r) == v /= "basic" /\ r.action /= <<>>

\* The rows a response displays, as <<id, content, done>>: the lines of the
\* text list, the task cards.
ShownRows(rs) ==
  {<<rs.items[k].id, rs.items[k].content, rs.items[k].done>> :
     k \in 1..Len(rs.items)}
  \cup {<<rs.cards[k].id, rs.cards[k].text, rs.cards[k].done>> :
          k \in {j \in 1..Len(rs.cards) : rs.cards[j].kind = "task"}}

\* The ids of the tasks whose content a response displays: the rows of a
\* list, the task of an edit form.
ShownIds(rs) ==
  {row[1] : row \in ShownRows(rs)}
  \cup (IF rs.reply = "editform" THEN {rs.id.n} ELSE {})
  \cup {rs.cards[k].id :
          k \in {j \in 1..Len(rs.cards) : rs.cards[j].kind = "editform"}}

\* The content an edit form is prefilled with.
FormContent(rs) ==
  IF rs.reply = "editform" THEN rs.content ELSE rs.cards[1].input[1].value

IsEditForm(rs) ==
  \/ rs.reply = "editform"
  \/ rs.reply = "cards" /\ Len(rs.cards) = 1 /\ rs.cards[1].kind = "editform"

\* The request targets task i with done, delete, edit or show-edit-form.
Targets(tr, i) ==
  /\ tr.call \in {"markTaskDone", "deleteTask", "editTask", "showEditForm"}
  /\ tr.id = Small(i)

\* C1. Owner isolation: a request resolved to owner A leaves every task of
\* another owner in the table as it was and displays none of them; done,
\* delete, edit and show-edit-form on such a task's id are answered with the
\* not-found reply for that id (whenever the database answers at all).
C1_OwnerIsolation ==
  [][/\ Handled =>
          \A i \in {j \in DOMAIN tasks : tasks[j].user_id /= OwnerOf(HandledReq)} :
            /\ i \in DOMAIN tasks' /\ tasks'[i] = tasks[i]
            /\ Targets(HandledTrace, i) => ~Parked
     /\ Answered =>
          \A i \in {j \in DOMAIN tasks : tasks[j].user_id /= OwnerOf(req')} :
            /\ i \in DOMAIN tasks' /\ tasks'[i] = tasks[i]
            /\ i \notin ShownIds(resp')
            /\ (Targets(trace', i) /\ ~trace'.failed)
                 => (resp' = TextReply("notfound", Small(i), <<>>))]_vars

\* A done on another owner's task was answered not-found.
C1_Witness ==
  /\ Replied
  /\ trace.call = "markTaskDone"
  /\ trace.id.big = <<>> /\ trace.id.n \in DOMAIN tasks
  /\ tasks[trace.id.n].user_id /= OwnerOf(req)
  /\ ~tasks[trace.id.n].done
  /\ resp.reply = "notfound"

\* C2. An add with valid text that the database executes inserts exactly one
\* task with that text, not done, of the sender, under an id greater than
\* every id given before; and every list by an owner shows each task of that
\* owner that has not been edited, marked done or deleted since its add,
\* under its id, with its text and not done.
C2_AddThenListed ==
  [][Answered =>
       /\ (/\ IsTextMessage(variant, req')
           /\ addCmd(TrimSpace(req'.text)).ok
           /\ ~resp'.err)
          => (\E id \in DOMAIN tasks' \ DOMAIN tasks :
                /\ tasks' = (id :> [content |->
                                      TrimSpace(addCmd(TrimSpace(req'.text)).m[1]),
                                    done |-> FALSE,
                                    user_id |-> OwnerOf(req')]) @@ tasks
                /\ \A j \in DOMAIN hist \cup DOMAIN tasks : id > j)
       /\ (trace'.call = "listTasks" /\ ~resp'.err)
          => (\A id \in {j \in DOMAIN hist : /\ hist[j].owner = OwnerOf(req')
                                             /\ ~hist[j].touched} :
                <<id, hist[id].text, FALSE>> \in ShownRows(resp'))]_vars

\* A list shows two tasks of the sender: one as added, one meanwhile done.
C2_Witness ==
  /\ Replied
  /\ trace.call = "listTasks"
  /\ Cardinality(ShownRows(resp)) = 2
  /\ \E i, j \in DOMAIN hist :
       /\ i < j
       /\ hist[i].owner = OwnerOf(req) /\ hist[i].touched
       /\ hist[j].owner = OwnerOf(req) /\ ~hist[j].touched
       /\ <<j, hist[j].text, FALSE>> \in ShownRows(resp)

\* ^delete\s+(\d+)$ : the text command the claim supposes; m[1] is the id.
DeleteCommand(t) ==
  LET n  == Len(t)
      ks == {k \in 8..n : AllIn(t, 7, k - 1, ReSpace) /\ AllIn(t, k, n, Digit)}
  IN IF HasPrefix(t, DeleteW) /\ ks /= {}
       THEN [ok |-> TRUE, m |-> <<SubSeq(t, SetMax(ks), n)>>]
       ELSE NoMatch

\* Request r is the text command `delete <i>`.
IsDeleteText(v, r, i) ==
  /\ IsTextMessage(v, r)
  /\ DeleteCommand(TrimSpace(r.text)).ok
  /\ Atoi(DeleteCommand(TrimSpace(r.text)).m[1]) = [val |-> Small(i), err |-> ""]

\* Request r is the card action deleteTask on task i.
IsDeleteAction(r, i) ==
  /\ r.action /= <<>>
  /\ r.action[1].method = "deleteTask"
  /\ Atoi(Param(r.action[1].params, "taskId")) = [val |-> Small(i), err |-> ""]

\* C3 as stated: once the owner of an existing task has issued delete for
\* its id, by the `delete <id>` command or by the deleteTask action of a
\* version that handles card actions, and the database has not failed, the
\* task is gone.
C3_Original ==
  [][Handled =>
       \A i \in DOMAIN tasks :
         (/\ tasks[i].user_id = OwnerOf(HandledReq)
          /\ \/ IsDeleteText(variant, HandledReq, i)
             \/ IsCardAction(variant, HandledReq) /\ IsDeleteAction(HandledReq, i)
          /\ ~HandledTrace.failed)
           => (i \notin DOMAIN tasks')]_vars

\* C3 amended. Where card actions exist (card and text versions), a
\* deleteTask action by the owner of an existing task, its DELETE executed,
\* removes the task; an id that has left the table is in no later table and
\* in no later list; the text `delete <id>` is answered with the usage
\* message and deletes nothing.
C3_Deleted ==
  [][/\ Handled =>
          /\ \A i \in DOMAIN tasks :
               (/\ IsCardAction(variant, HandledReq)
                /\ IsDeleteAction(HandledReq, i)
                /\ tasks[i].user_id = OwnerOf(HandledReq)
                /\ Executed(HandledTrace))
                 => (i \notin DOMAIN tasks')
          /\ (\E i \in DOMAIN tasks : IsDeleteText(variant, HandledReq, i))
               => (~Parked /\ resp'.reply = "usage" /\ tasks' = tasks)
     /\ \A i \in DOMAIN hist \ DOMAIN tasks :
          /\ i \notin DOMAIN tasks'
          /\ Answered => i \notin ShownIds(resp')]_vars

\* The owner deleted task 1 and now lists: the list shows task 2 alone.
C3_Witness ==
  /\ Replied
  /\ trace.call = "listTasks"
  /\ 1 \in DOMAIN hist /\ hist[1].deleted /\ hist[1].owner = OwnerOf(req)
  /\ 1 \notin DOMAIN tasks
  /\ ShownIds(resp) = {2}

\* ^edit\s+(\d+)\s*$ : an edit command with its id and no text.
EditWithoutText(t) ==
  LET n  == Len(t)
      ks == {k \in 6..n : AllIn(t, 5, k - 1, ReSpace) /\ t[k] \in Digit}
      k  == SetMax(ks)
      es == {e \in k..n : AllIn(t, k, e, Digit) /\ AllIn(t, e + 1, n, ReSpace)}
  IN HasPrefix(t, EditW) /\ ks /= {} /\ es /= {}

\* C4 as stated: in the version with the edit command, an edit message whose
\* text is empty gets the empty-content reply, no hard failure, and no
\* content changes.
C4_Original ==
  [][(/\ Handled
       /\ variant = "text"
       /\ IsTextMessage(variant, HandledReq)
       /\ EditWithoutText(TrimSpace(HandledReq.text)))
        => (/\ ~Parked
            /\ resp'.reply = "emptycontent"
            /\ ~resp'.err
            /\ tasks' = tasks)]_vars

\* C4 amended: an edit message whose text is empty is answered with the
\* usage message, without a statement sent to the database, without hard
\* failure and with the table unchanged; no text message gets the
\* empty-content reply.
C4_EditWithoutText ==
  [][/\ (/\ Handled
         /\ IsTextMessage(variant, HandledReq)
         /\ EditWithoutText(TrimSpace(HandledReq.text)))
          => (/\ ~Parked
              /\ resp' = TextReply("usage", Small(0), <<>>)
              /\ trace'.stmts = <<>>
              /\ tasks' = tasks)
     /\ (Answered /\ IsTextMessage(variant, req'))
          => (resp'.reply /= "emptycontent")]_vars

\* "edit 1 " was answered with the usage message by the text version, the
\* task 1 being there.
C4_Witness ==
  /\ Replied
  /\ variant = "text"
  /\ req.text = EditW \o Sp \o One \o Sp
  /\ 1 \in DOMAIN tasks
  /\ resp.reply = "usage"

\* The call the four patterns of the claim give a trimmed text, the first
\* match winning: add, list, done, edit, and help for the rest.
FourPatternCall(t) ==
  IF addCmd(t).ok THEN "addTask"
  ELSE IF listCmd(t).ok THEN "listTasks"
  ELSE IF doneCmd(t).ok THEN "markTaskDone"
  ELSE IF editCmd(t).ok THEN "editTask"
  ELSE "help"

\* C5 as stated: every text message is classified by the four patterns; a
\* text that matches none of them is answered with the usage message and the
\* table is unchanged.
C5_Original ==
  [][(Handled /\ IsTextMessage(variant, HandledReq))
       => LET t == TrimSpace(HandledReq.text)
          IN /\ HandledTrace.call = FourPatternCall(t)
             /\ (FourPatternCall(t) = "help")
                  => (/\ ~Parked
                      /\ resp' = TextReply("usage", Small(0), <<>>)
                      /\ tasks' = tasks)]_vars

\* The call the patterns of version v give a trimmed text: add, list, done
\* in every version; edit and then test in the text version only.
VersionCall(v, t) ==
  LET c == FourPatternCall(t)
  IN IF c = "editTask" THEN (IF v = "text" THEN "editTask" ELSE "help")
     ELSE IF c = "help" /\ v = "text" /\ t = TestW THEN "test"
     ELSE c

\* C5 amended: every text message gets the one call its version's patterns
\* give it; the text `list`, and no other, is a List and never an Add; an
\* Add starts with `add` and has a content; a text no pattern of the
\* version matches is answered with the usage message; `test` in the
\* text version is answered with the fixed test reply; and in both cases
\* no statement is sent and the table is unchanged.
C5_Classified ==
  [][(Handled /\ IsTextMessage(variant, HandledReq))
       => \E t \in {TrimSpace(HandledReq.text)}, tr \in {HandledTrace} :
            \E call \in {VersionCall(variant, t)} :
             /\ tr.call = call
             /\ (tr.call = "listTasks") <=> (t = ListW)
             /\ (tr.call = "addTask")
                  => (HasPrefix(t, AddW) /\ tr.content /= <<>>)
             /\ (call = "help")
                  => (/\ ~Parked
                      /\ resp' = TextReply("usage", Small(0), <<>>)
                      /\ tr.stmts = <<>> /\ tasks' = tasks)
             /\ (call = "test")
                  => (/\ ~Parked
                      /\ resp' = TextReply("test", Small(0), <<>>)
                      /\ tr.stmts = <<>> /\ tasks' = tasks)]_vars

\* A text that starts with a command word and matches no pattern ("list x")
\* was answered with the usage message.
C5_Witness ==
  /\ Replied
  /\ TrimSpace(req.text) = ListW \o Sp \o X
  /\ trace.call = "help"
  /\ resp.reply = "usage"

\* The action of a button click and its parameters.
MethodOf(r) == r.action[1].method
ParamsOf(r) == r.action[1].params

\* C6. In handleCardAction a markDone, deleteTask or editTask whose taskId is
\* absent or does not parse as an integer is answered "Invalid task ID", a
\* method other than these and list is answered "Unknown action"; either way
\* no statement is sent, the table is unchanged and there is no hard failure.
C6_InvalidAction ==
  [][(Handled /\ IsCardAction(variant, HandledReq))
       => /\ (/\ MethodOf(HandledReq) \in {"markDone", "deleteTask", "editTask"}
              /\ Atoi(Param(ParamsOf(HandledReq), "taskId")).err /= "")
               => (/\ ~Parked
                   /\ resp' = TextReply("invalidid", Small(0), <<>>)
                   /\ trace'.stmts = <<>> /\ tasks' = tasks)
          /\ (MethodOf(HandledReq) \notin {"markDone", "deleteTask", "editTask", "list"})
               => (/\ ~Parked
                   /\ resp' = TextReply("unknownaction", Small(0), <<>>)
                   /\ trace'.stmts = <<>> /\ tasks' = tasks)]_vars

\* A deleteTask whose taskId is "x" was answered "Invalid task ID", the
\* sender owning a task.
C6_Witness ==
  /\ Replied
  /\ IsCardAction(variant, req)
  /\ MethodOf(req) = "deleteTask"
  /\ Param(ParamsOf(req), "taskId") = X
  /\ \E i \in DOMAIN tasks : tasks[i].user_id = OwnerOf(req)
  /\ resp.reply = "invalidid"

\* C7. An editTask action with a valid taskId and no content (absent or
\* empty) is dispatched to showEditForm: one SELECT, no task changed, and the
\* form shows the current content of the sender's task with that id; with a
\* content it is dispatched to editTask, which, its UPDATE executed,
\* replaces the content of the sender's task with that id and of no other.
C7_EditOrForm ==
  [][(/\ Handled /\ IsCardAction(variant, HandledReq)
      /\ MethodOf(HandledReq) = "editTask"
      /\ Atoi(Param(ParamsOf(HandledReq), "taskId")).err = "")
       => LET id    == Atoi(Param(ParamsOf(HandledReq), "taskId")).val
              c     == Param(ParamsOf(HandledReq), "content")
              owner == OwnerOf(HandledReq)
              tr    == HandledTrace
              owned == /\ id.big = <<>> /\ id.n \in DOMAIN tasks
                       /\ tasks[id.n].user_id = owner
          IN IF c = <<>>
               THEN /\ ~Parked
                    /\ tr.call = "showEditForm" /\ tr.id = id
                    /\ tr.stmts = <<"SELECT">>
                    /\ tasks' = tasks
                    /\ (owned /\ ~tr.failed)
                         => (IsEditForm(resp') /\ FormContent(resp') = tasks[id.n].content)
                    /\ ~owned => ~IsEditForm(resp')
               ELSE /\ tr.call = "editTask" /\ tr.id = id
                    /\ tr.content = c
                    /\ (owned /\ Executed(tr))
                         => (tasks' = [tasks EXCEPT ![id.n].content = c])
                    /\ ~(owned /\ Executed(tr)) => (tasks' = tasks)]_vars

\* The edit form of a task the owner had edited to "y" shows "y".
C7_Witness ==
  /\ Replied
  /\ trace.call = "showEditForm"
  /\ IsEditForm(resp)
  /\ trace.id.big = <<>> /\ trace.id.n \in DOMAIN hist
  /\ hist[trace.id.n].touched
  /\ hist[trace.id.n].text = X
  /\ FormContent(resp) = Y

\* C8 as stated: a request during which the database fails ends in a hard
\* failure and never in the not-found reply; a done, delete, edit or
\* show-edit-form that finds no task of the sender with the id is answered
\* with the not-found reply and no hard failure.
C8_FailurePropagated ==
  [][/\ Answered => (trace'.failed => (resp'.err /\ resp'.reply /= "notfound"))
     /\ (/\ Handled
         /\ HandledTrace.call \in {"markTaskDone", "deleteTask", "editTask",
                                    "showEditForm"}
         /\ ~HandledTrace.failed
         /\ ~Matches(tasks, HandledTrace.id, OwnerOf(HandledReq)))
          => (/\ ~Parked
              /\ resp' = TextReply("notfound", HandledTrace.id, <<>>))]_vars

\* C9. Every task in the table has a content that is not empty.
C9_ContentNonEmpty == \A i \in DOMAIN tasks : tasks[i].content /= <<>>

\* An editTask action with an empty content was answered, the sender's task 1
\* keeping the content "y" an earlier edit gave it.
C9_Witness ==
  /\ Replied
  /\ IsCardAction(variant, req)
  /\ MethodOf(req) = "editTask"
  /\ ParamsOf(req) = <<KV("taskId", One), KV("content", <<>>)>>
  /\ 1 \in DOMAIN tasks /\ tasks[1].user_id = OwnerOf(req)
  /\ tasks[1].content = Y

\* The ids whose row differs between two tables (created, removed, changed).
Changed(before, after) ==
  {i \in DOMAIN before \cup DOMAIN after :
     \/ i \notin DOMAIN before
     \/ i \notin DOMAIN after
     \/ before[i] /= after[i]}

\* C10. A request changes at most one task and only the field of its intent:
\* done sets the done flag of the sender's task with the id, edit replaces
\* its content, delete removes it, add inserts one task; no surviving task
\* changes its owner (or its id, the key it is stored under); list, help,
\* test, show-edit-form, and the not-found, invalid-id, unknown-action and
\* empty-content replies leave the table as it was.
C10_Frame ==
  [][/\ Handled =>
          \E tr \in {HandledTrace}, owner \in {OwnerOf(HandledReq)} :
            LET ch  == Changed(tasks, tasks')
                id  == tr.id
                own == Matches(tasks, id, owner)
            IN /\ Cardinality(ch) <= 1
               /\ \A i \in DOMAIN tasks \cap DOMAIN tasks' :
                    tasks'[i].user_id = tasks[i].user_id
               /\ (tr.call = "markTaskDone")
                    => (tasks' = tasks
                        \/ (own /\ tasks' = [tasks EXCEPT ![id.n].done = TRUE]))
               /\ (tr.call = "editTask")
                    => (tasks' = tasks
                        \/ (own /\ tasks' = [tasks EXCEPT ![id.n].content = tr.content]))
               /\ (tr.call = "deleteTask")
                    => (tasks' = tasks
                        \/ (own /\ tasks' = [i \in DOMAIN tasks \ {id.n} |-> tasks[i]]))
               /\ (tr.call = "addTask")
                    => (/\ ch \cap DOMAIN tasks = {}
                        /\ \A i \in ch : /\ ~tasks'[i].done
                                         /\ tasks'[i].content = tr.content
                                         /\ tasks'[i].user_id = owner)
               /\ (\/ tr.call \notin {"markTaskDone", "editTask", "deleteTask",
                                      "addTask"}
                   \/ /\ ~Parked
                      /\ resp'.reply \in {"notfound", "invalidid", "unknownaction",
                                          "emptycontent", "usage"})
                    => (tasks' = tasks)
     /\ ~Handled => (tasks' = tasks)]_vars

\* A done was executed on one of two tasks of the sender, the other one is
\* still not done.
C10_Witness ==
  /\ Replied
  /\ trace.call = "markTaskDone" /\ Executed(trace)
  /\ \E i, j \in DOMAIN tasks :
       /\ i /= j
       /\ tasks[i].user_id = OwnerOf(req) /\ tasks[j].user_id = OwnerOf(req)
       /\ Small(i) = trace.id /\ tasks[i].done /\ ~tasks[j].done

\* The action names of the buttons of a card.
ButtonMethods(c) == {c.buttons[k].method : k \in 1..Len(c.buttons)}

\* The action set of a task: Mark Done when it is not done, Edit and Delete.
ActionSet(done) ==
  (IF done THEN {} ELSE {"markDone"}) \cup {"editTask", "deleteTask"}

\* C11 as stated: in the card version every task card of a list carries Mark
\* Done exactly when the task is not done, and Edit and Delete always; the
\* list has one card per task of the owner, in the order of their ids; the
\* card returned by add carries the action set of the list card of the task
\* it added.
C11_CardActions ==
  [][(Answered /\ variant = "card" /\ resp'.reply = "cards")
       => LET cs   == resp'.cards
              rows == Select(tasks', OwnerOf(req'))
          IN /\ \A k \in 1..Len(cs) :
                  (cs[k].kind = "task")
                    => (ButtonMethods(cs[k]) = ActionSet(cs[k].done))
             /\ (cs[1].kind = "task")
                  => (/\ Len(cs) = Len(rows)
                      /\ \A k \in 1..Len(cs) :
                           /\ cs[k].id = rows[k].id
                           /\ cs[k].done = rows[k].done
                           /\ cs[k].text = rows[k].content)
             /\ \A k \in 1..Len(cs) :
                  (cs[k].kind = "added")
                    => (/\ cs[k].id \in DOMAIN tasks'
                        /\ ButtonMethods(cs[k])
                             = ActionSet(tasks'[cs[k].id].done))]_vars

\* C11, the list cards alone: what the claim says of the cards of a list.
C11_ListCards ==
  [][(Answered /\ variant = "card" /\ resp'.reply = "cards"
        /\ resp'.cards[1].kind = "task")
       => LET cs   == resp'.cards
              rows == Select(tasks', OwnerOf(req'))
          IN /\ Len(cs) = Len(rows)
             /\ \A k \in 1..Len(cs) :
                  /\ cs[k].id = rows[k].id
                  /\ cs[k].done = rows[k].done
                  /\ cs[k].text = rows[k].content
                  /\ ButtonMethods(cs[k]) = ActionSet(cs[k].done)]_vars


\* The buttons of every card of a response.
EmittedButtons(rs) ==
  UNION {{rs.cards[k].buttons[j] : j \in 1..Len(rs.cards[k].buttons)} :
           k \in 1..Len(rs.cards)}

\* C12 as stated: every button of every card in a response carries an action
\* name and a parameter map with the key taskId, and the Save button of the
\* edit form carries the key content as well.
C12_ButtonPayloads ==
  [][(Answered /\ resp'.reply = "cards")
       => \A b \in EmittedButtons(resp') :
            /\ b.method /= ""
            /\ "taskId" \in DOMAIN b.params
            /\ (b.text = "Save") => ("content" \in DOMAIN b.params)]_vars

\* C12, what the cards do carry: every button has an action name handled by
\* handleCardAction, and every button but Cancel (the list action, which
\* takes no parameter) carries the decimal id of the card's task as taskId.
C12_TaskIdCarried ==
  [][(Answered /\ resp'.reply = "cards")
       => \A k \in 1..Len(resp'.cards) :
            \A j \in 1..Len(resp'.cards[k].buttons) :
              LET b == resp'.cards[k].buttons[j]
              IN /\ b.method \in {"markDone", "editTask", "deleteTask", "list"}
                 /\ (b.method /= "list")
                      => (/\ DOMAIN b.params = {"taskId"}
                          /\ b.params.taskId = Itoa(resp'.cards[k].id))]_vars

\* The Save button of an edit form was clicked, its payload sent back as it
\* was emitted (editTask with the taskId alone), by the owner of the task:
\* the answer is the edit form again and the content is what it was.
C12_SaveShowsFormAgain ==
  [][(/\ Answered /\ variant = "card" /\ IsCardAction(variant, req')
      /\ MethodOf(req') = "editTask"
      /\ \E i \in DOMAIN tasks :
           /\ tasks[i].user_id = OwnerOf(req')
           /\ ParamsOf(req') = <<KV("taskId", Itoa(i))>>
      /\ ~trace'.failed)
       => (IsEditForm(resp') /\ tasks' = tasks)]_vars


\* C13 as stated: no request sends more than one statement to the database,
\* so no statement of another request runs between the database accesses of
\* a request.
C13_OneStatement ==
  \A p \in Procs :
    /\ Len(inflight[p].stmts) <= 1
    /\ ~inflight[p].crossed

\* C13 amended: a request sends at most one statement that writes, and it is
\* its first; in the basic and the text version it sends no other; in the
\* card version a done, delete or edit that found its task sends the SELECT
\* of the list as a second statement, and only between these two can a
\* statement of another request run. Each statement is atomic: a step
\* changes at most one row, and the second statement changes none.
C13_OneWrite ==
  [][\A p \in Procs :
       LET s == inflight'[p].stmts
       IN /\ Len(s) <= 2
          /\ (variant /= "card") => (Len(s) <= 1)
          /\ (Len(s) = 2)
               => (s[1] \in {"UPDATE", "DELETE"} /\ s[2] = "SELECT")
          /\ (inflight'[p].pc = "second")
               => (variant = "card" /\ s \in {<<"UPDATE">>, <<"DELETE">>})
          /\ inflight'[p].crossed
               => (variant = "card" /\ inflight'[p].pc \in {"second", "done"}
                   /\ s[1] \in {"UPDATE", "DELETE"})
          /\ Cardinality(Changed(tasks, tasks')) <= 1
          /\ (inflight[p].pc = "second" /\ inflight'[p].pc = "done")
               => (tasks' = tasks)]_vars

\* In the card version a done on task 1 is between its UPDATE and its
\* SELECT, and a statement of another request has changed the rows of its
\* owner since the UPDATE: the list it will answer with is not the table its
\* UPDATE left.
C13_Witness ==
  \E p \in Procs :
    /\ variant = "card"
    /\ inflight[p].pc = "second"
    /\ MethodOf(inflight[p].req) = "markDone"
    /\ inflight[p].stmts = <<"UPDATE">>
    /\ inflight[p].crossed
    /\ Select(tasks, OwnerOf(inflight[p].req)) /= inflight[p].snap

\* The digit sequence a text matching `done <digits>` or, in the text
\* version, `edit <digits> <content>` carries; <<>> for any other text.
IdDigits(v, t) ==
  IF doneCmd(t).ok THEN doneCmd(t).m[1]
  ELSE IF v = "text" /\ editCmd(t).ok THEN editCmd(t).m[1]
  ELSE <<>>

\* The decimal digits of a value of the type int that is not negative.
DecimalOf(x) == IF x.big /= <<>> THEN x.big ELSE Itoa(x.n)

\* C14 as stated: for every text matching `done <digits>` or `edit <digits>
\* <content>`, whatever the length of the digit sequence, parsing the digits
\* does not fail and the id passed to markTaskDone or editTask is the number
\* the digits write.
C14_ExactId ==
  [][(Handled /\ IsTextMessage(variant, HandledReq)
        /\ IdDigits(variant, TrimSpace(HandledReq.text)) /= <<>>)
       => LET ds == IdDigits(variant, TrimSpace(HandledReq.text))
          IN /\ Atoi(ds).err = ""
             /\ HandledTrace.call \in {"markTaskDone", "editTask"}
             /\ DecimalOf(HandledTrace.id) = StripZeros(ds)]_vars

\* C14 for the digit sequences within the range of int: the id passed is
\* the number the digits write, leading zeros aside, and the only task a
\* done or edit changes is the sender's task with that id.
C14_ExactInRange ==
  [][(Handled /\ IsTextMessage(variant, HandledReq)
        /\ IdDigits(variant, TrimSpace(HandledReq.text)) /= <<>>
        /\ ~ExceedsDigits(StripZeros(IdDigits(variant, TrimSpace(HandledReq.text))),
                          MaxInt64Digits))
       => LET ds == IdDigits(variant, TrimSpace(HandledReq.text))
          IN /\ HandledTrace.call \in {"markTaskDone", "editTask"}
             /\ DecimalOf(HandledTrace.id) = StripZeros(ds)
             /\ \A i \in Changed(tasks, tasks') : Small(i) = HandledTrace.id]_vars

\* Request r sends back a button emitted for task i: the button's action
\* name with its parameter map, the taskId of the task.
ClicksButtonOf(r, i) ==
  /\ r.action /= <<>>
  /\ MethodOf(r) \in hist[i].offered
  /\ ParamsOf(r) = <<KV("taskId", Itoa(i))>>

\* Request r sends back the Cancel button of an edit form: the list action
\* with no parameter.
ClicksCancel(r) ==
  /\ r.action /= <<>>
  /\ MethodOf(r) = "list"
  /\ ParamsOf(r) = <<>>

\* C15 as stated: in the card version, sending back the action name and the
\* parameter map of a button emitted in a card is never answered "Unknown
\* action" or "Invalid task ID"; sent by the owner the card was rendered
\* for, the task not deleted since, it is not answered with the not-found
\* reply either.
C15_ButtonClosure ==
  [][(Answered /\ variant = "card")
       => /\ ClicksCancel(req')
               => (resp'.reply \notin {"unknownaction", "invalidid", "notfound"})
          /\ \A i \in DOMAIN hist :
               ClicksButtonOf(req', i)
                 => (/\ resp'.reply \notin {"unknownaction", "invalidid"}
                     /\ (hist[i].owner = OwnerOf(req') /\ ~hist[i].deleted)
                          => (resp'.reply /= "notfound"))]_vars

\* C15 while the database answers: the same, for the requests none of whose
\* statements fails.
C15_ClosureNoFailure ==
  [][(Answered /\ variant = "card" /\ ~trace'.failed)
       => /\ ClicksCancel(req')
               => (resp'.reply \notin {"unknownaction", "invalidid", "notfound"})
          /\ \A i \in DOMAIN hist :
               ClicksButtonOf(req', i)
                 => (/\ resp'.reply \notin {"unknownaction", "invalidid"}
                     /\ (hist[i].owner = OwnerOf(req') /\ ~hist[i].deleted)
                          => (resp'.reply /= "notfound"))]_vars

=============================================================================
